---------------------------- MODULE Spec2Model ----------------------------
(***************************************************************************)
(* anyser: a Serializer that rewrites trees of values into primitive trees *)
(* (to_primitive) and back (from_primitive), tagging values of registered  *)
(* kinds and escaping strings that collide with the tag syntax.            *)
(*                                                                         *)
(* Python values are records with a field t naming the runtime type:       *)
(*   none, bool, int, float, str (s: sequence of one-character strings),   *)
(*   list (elems), dict (pairs: sequence of [k, v] in insertion order),    *)
(*   obj (an instance of an application class: kind, payload),             *)
(*   error (a raised exception: exc).                                      *)
(***************************************************************************)
EXTENDS Integers, Sequences, FiniteSets, TLC

VARIABLES reg, x, prim, out, pc, stack, maxDepth

vars == <<reg, x, prim, out, pc, stack, maxDepth>>

\* ------------------------------------------------------------ bounds
\* Longest string among the values handed to to_primitive.
MaxLen == 2
\* Longest string among the raw primitive trees handed to from_primitive.
MaxRawLen == 4
\* Deepest nesting of the values handed to to_primitive.
MaxNest == 2
\* The interpreter's recursion limit, in nested calls of inner: the call that
\* would exceed it raises RecursionError.
MaxStack == 6

\* ------------------------------------------------------------ values
NoneV == [t |-> "none"]
IntV(n) == [t |-> "int", n |-> n]
FloatV == [t |-> "float", f |-> "3.14"]
BoolV(b) == [t |-> "bool", b |-> b]
StrV(s) == [t |-> "str", s |-> s]
ListV(es) == [t |-> "list", elems |-> es]
DictV(ps) == [t |-> "dict", pairs |-> ps]
ObjV(kind, p) == [t |-> "obj", kind |-> kind, payload |-> p]
Err(e) == [t |-> "error", exc |-> e]
Unset == [t |-> "unset"]

IsErr(v) == v.t = "error"

\* type(obj): the exact runtime class.
TypeOf(v) == IF v.t = "obj" THEN v.kind ELSE v.t

\* isinstance(obj, str) and obj.startswith(c)
StartsWith(v, c) == v.t = "str" /\ Len(v.s) > 0 /\ v.s[1] = c

\* obj[1:]
Tail1(s) == SubSeq(s, 2, Len(s))

\* ------------------------------------------------------------ Serializer.__init__
escape_char == "/"
type_char == "$"
type_key == <<type_char, "t">>
value_key == <<"v">>

\* ------------------------------------------------------------ codecs
\* A codec's two callables are user code; the model names the ones it uses.
\*   to_primitive "payload": lambda o: o.payload      from_primitive "box": the class
\*   to_primitive "str":     str                      from_primitive "int": int
\*   to_primitive "same":    lambda s: s              from_primitive "same": lambda s: s
\*   to_primitive "wrap":    lambda s: [s]            from_primitive "first": lambda p: p[0]
\*   to_primitive "asB":     lambda o: B(o.payload)
\*   to_primitive "asA":     lambda o: A(o.payload)
CodecA == [name |-> <<"a">>, kind |-> "A", to_primitive |-> "payload", from_primitive |-> "box"]
CodecB == [name |-> <<"b">>, kind |-> "B", to_primitive |-> "payload", from_primitive |-> "box"]
CodecI == [name |-> <<"i">>, kind |-> "int", to_primitive |-> "str", from_primitive |-> "int"]
CodecS == [name |-> <<"s">>, kind |-> "str", to_primitive |-> "same", from_primitive |-> "same"]
CodecW == [name |-> <<"a">>, kind |-> "str", to_primitive |-> "wrap", from_primitive |-> "first"]
CodecP == [name |-> <<"a">>, kind |-> "A", to_primitive |-> "asB", from_primitive |-> "box"]
CodecQ == [name |-> <<"b">>, kind |-> "B", to_primitive |-> "asA", from_primitive |-> "box"]

Digit(d) == <<"0", "1", "2", "3", "4", "5", "6", "7", "8", "9">>[d + 1]

RECURSIVE IntStr(_)
\* str(n) for an int n >= 0
IntStr(n) == IF n < 10 THEN <<Digit(n)>> ELSE IntStr(n \div 10) \o <<Digit(n % 10)>>

DigitVal(c) == CHOOSE d \in 0..9 : Digit(d) = c

IsDigit(c) == \E d \in 0..9 : Digit(d) = c

RECURSIVE IntVal(_)
IntVal(s) == IF Len(s) = 1 THEN DigitVal(s[1])
             ELSE 10 * IntVal(SubSeq(s, 1, Len(s) - 1)) + DigitVal(s[Len(s)])

\* s.strip() of the only whitespace the model's strings hold, the line break
RECURSIVE Strip(_)
Strip(s) ==
    IF Len(s) > 0 /\ s[1] = "\n" THEN Strip(Tail1(s))
    ELSE IF Len(s) > 0 /\ s[Len(s)] = "\n" THEN Strip(SubSeq(s, 1, Len(s) - 1))
    ELSE s

\* int(p): a string of decimal digits (surrounding whitespace ignored) parses,
\* any other string is a ValueError; an int is itself, True is 1, a float is
\* truncated; None, a list, a dict or an instance is a TypeError.
IntParse(p) ==
    CASE p.t = "str" ->
           IF Len(Strip(p.s)) > 0 /\ \A i \in 1..Len(Strip(p.s)) : IsDigit(Strip(p.s)[i])
           THEN IntV(IntVal(Strip(p.s)))
           ELSE Err("ValueError")
      [] p.t = "int" -> p
      [] p.t = "bool" -> IntV(IF p.b THEN 1 ELSE 0)
      [] p.t = "float" -> IntV(3)
      [] OTHER -> Err("TypeError")

\* '%s' % v, as filter_dict_keys formats what a writer returned.
PyStr(v) ==
    CASE v.t = "str" -> v.s
      [] v.t = "none" -> <<"N", "o", "n", "e">>
      [] v.t = "int" -> IntStr(v.n)

\* c.to_primitive(obj)
Writer(c, obj) ==
    CASE c.to_primitive = "payload" -> obj.payload
      [] c.to_primitive = "str" -> StrV(PyStr(obj))
      [] c.to_primitive = "same" -> obj
      [] c.to_primitive = "wrap" -> ListV(<<obj>>)
      [] c.to_primitive = "asB" -> ObjV("B", obj.payload)
      [] c.to_primitive = "asA" -> ObjV("A", obj.payload)

\* p[0]: the first character of a string or element of a list (IndexError
\* when it is empty), the entry of a dict under the key 0 (KeyError without
\* one), a TypeError for anything else.
First(p) ==
    CASE p.t = "str" -> IF Len(p.s) > 0 THEN StrV(<<p.s[1]>>) ELSE Err("IndexError")
      [] p.t = "list" -> IF Len(p.elems) > 0 THEN p.elems[1] ELSE Err("IndexError")
      [] p.t = "dict" -> IF \E i \in 1..Len(p.pairs) : p.pairs[i].k = IntV(0)
                         THEN (CHOOSE q \in {p.pairs[i] : i \in 1..Len(p.pairs)} : q.k = IntV(0)).v
                         ELSE Err("KeyError")
      [] OTHER -> Err("TypeError")

\* c.from_primitive(p)
Reader(c, p) ==
    CASE c.from_primitive = "box" -> ObjV(c.kind, p)
      [] c.from_primitive = "int" -> IntParse(p)
      [] c.from_primitive = "same" -> p
      [] c.from_primitive = "first" -> First(p)

\* _by_kind / _by_name: dict comprehensions over the codecs, so a later codec
\* of the same kind (name) replaces an earlier one.
HasKind(r, kind) == \E i \in 1..Len(r) : r[i].kind = kind

ByKind(r, kind) ==
    r[CHOOSE i \in 1..Len(r) : r[i].kind = kind /\ \A j \in (i+1)..Len(r) : r[j].kind # kind]

HasName(r, name) == \E i \in 1..Len(r) : r[i].name = name

ByName(r, name) ==
    r[CHOOSE i \in 1..Len(r) : r[i].name = name /\ \A j \in (i+1)..Len(r) : r[j].name # name]

\* ------------------------------------------------------------ dict building
HasKey(ps, k) == \E i \in 1..Len(ps) : ps[i].k = k

\* d[k] = v: a key already present keeps its place and takes the new value.
DictPut(ps, k, v) ==
    IF HasKey(ps, k)
    THEN [i \in 1..Len(ps) |-> IF ps[i].k = k THEN [k |-> k, v |-> v] ELSE ps[i]]
    ELSE Append(ps, [k |-> k, v |-> v])

\* d[k]
DictGet(ps, k) == ps[CHOOSE i \in 1..Len(ps) : ps[i].k = k].v

\* ------------------------------------------------------------ to_primitive
\* Mutant of TaggedScalar: the colon between name and body is left out.
TaggedScalar_nocolon(name, body) == StrV(<<type_char>> \o name \o body)

TaggedScalar(name, body) == StrV(<<type_char>> \o name \o <<":">> \o body)

BareTag(name) == StrV(<<type_char>> \o name)

TaggedCompound(name, v) ==
    DictV(<<[k |-> StrV(type_key), v |-> StrV(name)], [k |-> StrV(value_key), v |-> v]>>)

Escaped(v) == StrV(<<escape_char>> \o v.s)

\* Mutant of to_filter_dict_keys: string keys are not escaped.
to_filter_dict_keys_noescape(r, key) ==
    IF HasKind(r, TypeOf(key))
    THEN LET c == ByKind(r, TypeOf(key))
         IN  TaggedScalar(c.name, PyStr(Writer(c, key)))
    ELSE key

to_filter_dict_keys(r, key) ==
    IF StartsWith(key, type_char) \/ StartsWith(key, escape_char)
    THEN Escaped(key)
    ELSE IF HasKind(r, TypeOf(key))
         THEN LET c == ByKind(r, TypeOf(key))
              IN  TaggedScalar(c.name, PyStr(Writer(c, key)))
         ELSE key

RECURSIVE to_inner(_, _), to_items(_, _, _, _), to_elems(_, _, _)

\* { filter_dict_keys(k): inner(v) for k, v in obj.items() }
to_items(r, ps, i, acc) ==
    IF i > Len(ps) THEN DictV(acc)
    ELSE to_items(r, ps, i + 1,
                  DictPut(acc, to_filter_dict_keys(r, ps[i].k), to_inner(r, ps[i].v)))

\* list(map(inner, obj))
to_elems(r, es, i) ==
    IF i > Len(es) THEN <<>>
    ELSE <<to_inner(r, es[i])>> \o to_elems(r, es, i + 1)

to_registered(r, obj) ==
    LET c == ByKind(r, TypeOf(obj))
        w == Writer(c, obj)
    IN  IF w.t # "none"
        THEN LET v == to_inner(r, w)
             IN  IF v.t = "str" THEN TaggedScalar(c.name, v.s)
                 ELSE TaggedCompound(c.name, v)
        ELSE BareTag(c.name)

\* Mutant of to_branch: the codec lookup comes before the int test.
to_branch_kind_first(r, obj) ==
    IF obj.t = "dict" THEN "dict"
    ELSE IF obj.t = "list" THEN "list"
    ELSE IF HasKind(r, TypeOf(obj)) THEN "by_kind"
    ELSE IF TypeOf(obj) = "int" THEN "int"
    ELSE IF StartsWith(obj, type_char) \/ StartsWith(obj, escape_char) THEN "escape"
    ELSE "plain"

\* The if/elif chain of inner: which branch handles obj.
to_branch(r, obj) ==
    IF obj.t = "dict" THEN "dict"
    ELSE IF obj.t = "list" THEN "list"
    ELSE IF TypeOf(obj) = "int" THEN "int"
    ELSE IF HasKind(r, TypeOf(obj)) THEN "by_kind"
    ELSE IF StartsWith(obj, type_char) \/ StartsWith(obj, escape_char) THEN "escape"
    ELSE "plain"

to_inner(r, obj) ==
    LET b == to_branch(r, obj)
    IN  CASE b = "dict" -> to_items(r, obj.pairs, 1, <<>>)
          [] b = "list" -> ListV(to_elems(r, obj.elems, 1))
          [] b = "int" -> obj
          [] b = "by_kind" -> to_registered(r, obj)
          [] b = "escape" -> Escaped(obj)
          [] b = "plain" -> obj

to_primitive(r, obj) == to_inner(r, obj)

\* ------------------------------------------------------------ from_primitive
\* \w, for the characters the model's strings are made of
WordChars ==
    {"a", "b", "i", "s", "t", "v", "z", "N", "o", "n", "e", "_",
     "0", "1", "2", "3", "4", "5", "6", "7", "8", "9"}

\* The end of the longest run of characters in S that starts at position i
\* of s (i - 1 when s[i] is not in S): a greedy + or *.
RECURSIVE RunEnd(_, _, _)
RunEnd(s, i, S) == IF i <= Len(s) /\ s[i] \in S THEN RunEnd(s, i + 1, S) ELSE i - 1

\* . matches any character but a line break
Dot(s) == {s[i] : i \in 1..Len(s)} \ {"\n"}

\* _typed_string_parser.match(s): ^\$(\w+)(?::(.+))?  The match is anchored at
\* the start only. m.groups() is (name, body), body None when the optional
\* group did not take part. ok is FALSE when there is no match.
typed_string_parser(s) ==
    IF Len(s) = 0 \/ s[1] # type_char THEN [ok |-> FALSE]
    ELSE LET j == RunEnd(s, 2, WordChars)
         IN  IF j < 2 THEN [ok |-> FALSE]
             ELSE LET e == RunEnd(s, j + 2, Dot(s))
                  IN  IF j + 1 <= Len(s) /\ s[j + 1] = ":" /\ e >= j + 2
                      THEN [ok |-> TRUE, name |-> SubSeq(s, 2, j),
                            body |-> StrV(SubSeq(s, j + 2, e))]
                      ELSE [ok |-> TRUE, name |-> SubSeq(s, 2, j), body |-> NoneV]

\* by_name[tpe](arg), for tpe a string: KeyError when no codec has the name.
CallByName(r, name, arg) ==
    IF HasName(r, name) THEN Reader(ByName(r, name), arg) ELSE Err("KeyError")

\* Mutant of from_typed_string: a string that is no tag of a known codec is
\* taken for a plain string.
from_typed_string_lenient(r, s) ==
    LET m == typed_string_parser(s)
    IN  IF m.ok /\ HasName(r, m.name) THEN Reader(ByName(r, m.name), m.body) ELSE StrV(s)

\* m = parser.match(s); ValueError if not m; by_name[tpe](body)
from_typed_string(r, s) ==
    LET m == typed_string_parser(s)
    IN  IF m.ok THEN CallByName(r, m.name, m.body) ELSE Err("ValueError")

\* key.startswith on a key that is no string is an AttributeError.
from_filter_dict_keys(r, key) ==
    IF key.t # "str" THEN Err("AttributeError")
    ELSE IF StartsWith(key, escape_char) THEN StrV(Tail1(key.s))
    ELSE IF StartsWith(key, type_char) THEN from_typed_string(r, key.s)
    ELSE key

\* Mutant of from_str: what follows the escape character is parsed again.
from_str_reparse(r, obj) ==
    IF StartsWith(obj, escape_char)
    THEN IF StartsWith(StrV(Tail1(obj.s)), type_char)
         THEN from_typed_string(r, Tail1(obj.s))
         ELSE StrV(Tail1(obj.s))
    ELSE IF StartsWith(obj, type_char) THEN from_typed_string(r, obj.s)
    ELSE obj

\* The string branch of inner.
from_str(r, obj) ==
    IF StartsWith(obj, escape_char) THEN StrV(Tail1(obj.s))
    ELSE IF StartsWith(obj, type_char) THEN from_typed_string(r, obj.s)
    ELSE obj

RECURSIVE from_inner(_, _), from_items(_, _, _, _), from_elems(_, _, _, _)

\* { filter_dict_keys(k): inner(v) for k, v in obj.items() }: the key is
\* evaluated before the value, and the first exception ends the walk.
from_items(r, ps, i, acc) ==
    IF i > Len(ps) THEN DictV(acc)
    ELSE LET k == from_filter_dict_keys(r, ps[i].k)
         IN  IF IsErr(k) THEN k
             ELSE LET v == from_inner(r, ps[i].v)
                  IN  IF IsErr(v) THEN v
                      ELSE from_items(r, ps, i + 1, DictPut(acc, k, v))

\* list(map(inner, obj))
from_elems(r, es, i, acc) ==
    IF i > Len(es) THEN ListV(acc)
    ELSE LET v == from_inner(r, es[i])
         IN  IF IsErr(v) THEN v ELSE from_elems(r, es, i + 1, Append(acc, v))

\* by_name[tpe](inner(obj['v'])): by_name[tpe] is evaluated first (TypeError for
\* an unhashable tpe, KeyError for an unknown one), then obj['v'], then inner.
from_tagged(r, obj) ==
    LET tpe == DictGet(obj.pairs, StrV(type_key))
    IN  IF tpe.t \in {"list", "dict"} THEN Err("TypeError")
        ELSE IF ~(tpe.t = "str" /\ HasName(r, tpe.s)) THEN Err("KeyError")
        ELSE IF ~HasKey(obj.pairs, StrV(value_key)) THEN Err("KeyError")
        ELSE LET v == from_inner(r, DictGet(obj.pairs, StrV(value_key)))
             IN  IF IsErr(v) THEN v ELSE Reader(ByName(r, tpe.s), v)

from_inner(r, obj) ==
    IF obj.t = "dict"
    THEN IF HasKey(obj.pairs, StrV(type_key)) THEN from_tagged(r, obj)
         ELSE from_items(r, obj.pairs, 1, <<>>)
    ELSE IF obj.t = "list" THEN from_elems(r, obj.elems, 1, <<>>)
    ELSE IF obj.t = "str" THEN from_str(r, obj)
    ELSE obj

from_primitive(r, obj) == from_inner(r, obj)

\* ------------------------------------------------------------ inputs
Alphabet == {type_char, escape_char, ":", "a", "\n"}

\* Every string over the alphabet of at most n characters.
RECURSIVE Strings(_)
Strings(n) ==
    IF n = 0 THEN {<<>>}
    ELSE LET S == Strings(n - 1)
         IN  S \cup {Append(s, c) : s \in {q \in S : Len(q) = n - 1}, c \in Alphabet}

Kinds == {"A", "B"}

\* Unregistered scalars and strings, the leaves of a value.
Scalars ==
    {StrV(s) : s \in Strings(MaxLen) \cup {type_key, value_key}}
        \cup {NoneV, IntV(0), IntV(7), FloatV, BoolV(TRUE)}

\* A few leaves to build nested values from.
Small ==
    {NoneV, IntV(7), FloatV, StrV(<<>>), StrV(<<"a">>), StrV(<<type_char>>),
     StrV(<<escape_char, "a">>)}

\* Mapping keys: strings, and instances whose writer gives None, a string or an int.
Keys ==
    {k \in Scalars : k.t = "str"}
        \cup {ObjV(k, p) : k \in Kinds, p \in {q \in Scalars : q.t \in {"str", "none"}} \cup {IntV(7)}}

SmallKeys ==
    {StrV(<<"a">>), StrV(type_key), StrV(<<escape_char>>), ObjV("A", StrV(<<"a">>)), ObjV("A", NoneV)}

\* Values nested n deep over the small leaves.
RECURSIVE Nested(_)
Nested(n) ==
    IF n = 0 THEN Small
    ELSE LET V == Nested(n - 1)
         IN  V \cup {ObjV(k, p) : k \in Kinds, p \in V}
               \cup {ListV(<<e>>) : e \in V}
               \cup {ListV(<<e, f>>) : e \in Small, f \in Small}
               \cup {DictV(<<[k |-> k, v |-> v]>>) : k \in SmallKeys, v \in V}
               \cup {DictV(<<[k |-> kl[1], v |-> IntV(0)], [k |-> kl[2], v |-> v]>>) :
                       kl \in {q \in SmallKeys \X SmallKeys : q[1] # q[2]}, v \in Small}

\* The values handed to to_primitive: every leaf, one level around every leaf,
\* and the nested values.
Values ==
    Scalars
        \cup {ObjV(k, p) : k \in Kinds, p \in Scalars}
        \cup {ListV(<<>>), DictV(<<>>)}
        \cup {ListV(<<e>>) : e \in Scalars}
        \cup {DictV(<<[k |-> k, v |-> v]>>) : k \in Keys \cup {IntV(7)}, v \in Small}
        \cup Nested(MaxNest)

\* The codec lists a Serializer is constructed with.
Registries == {<<CodecA>>, <<CodecA, CodecB, CodecI>>}

\* Raw primitive trees handed to from_primitive (what a decoder may return).
RawSmall ==
    {NoneV, IntV(7), StrV(<<"a">>), StrV(<<type_char>>), StrV(<<type_char, "a">>),
     StrV(<<type_char, "a", "a">>), StrV(<<type_char, "a", ":", "a">>),
     StrV(<<escape_char, type_char>>)}

RawKeys ==
    {StrV(<<"a">>), StrV(<<escape_char, "a">>), StrV(<<type_char>>), StrV(<<type_char, "a">>),
     StrV(<<type_char, "a", "a">>), StrV(<<type_char, "a", ":", "a">>)}

TypeNames == {StrV(<<"a">>), StrV(<<"i">>), StrV(<<"a", "a">>), IntV(7), ListV(<<>>)}

RawCompounds ==
    {DictV(<<[k |-> StrV(type_key), v |-> n], [k |-> StrV(value_key), v |-> v]>>) :
        n \in TypeNames, v \in RawSmall}
      \cup {DictV(<<[k |-> StrV(value_key), v |-> v], [k |-> StrV(type_key), v |-> n]>>) :
        n \in TypeNames, v \in RawSmall}
      \cup {DictV(<<[k |-> StrV(type_key), v |-> n]>>) : n \in TypeNames}
      \cup {DictV(<<[k |-> StrV(type_key), v |-> n], [k |-> StrV(value_key), v |-> v],
                    [k |-> k, v |-> w]>>) :
        n \in TypeNames, v \in {NoneV, StrV(<<type_char>>)}, k \in RawKeys, w \in RawSmall}

RawFlat ==
    RawSmall \cup RawCompounds
      \cup {ListV(<<e>>) : e \in RawSmall}
      \cup {ListV(<<e, f>>) : e \in RawSmall, f \in RawSmall}
      \cup {DictV(<<[k |-> k, v |-> v]>>) : k \in RawKeys \cup {IntV(7)}, v \in RawSmall}
      \cup {DictV(<<[k |-> kl[1], v |-> NoneV], [k |-> kl[2], v |-> v]>>) :
              kl \in {q \in RawKeys \X RawKeys : q[1] # q[2]}, v \in RawSmall}

RawTrees ==
    {StrV(s) : s \in Strings(MaxRawLen)}
      \cup RawFlat
      \cup {ListV(<<e>>) : e \in RawFlat}
      \cup {DictV(<<[k |-> StrV(<<"a">>), v |-> e]>>) : e \in RawFlat}
      \cup {DictV(<<[k |-> StrV(type_key), v |-> StrV(<<"a">>)], [k |-> StrV(value_key), v |-> e]>>) :
              e \in RawFlat}

\* ------------------------------------------------------------ state machine
\* pc: "start" (a Serializer and a value), "encoded" (prim holds a primitive
\* tree), "decoded" (out holds what from_primitive returned or raised).
\* The walk of one call, step by step: "to_walk" / "from_walk" while inner
\* recurses over x, stack holding the calls of inner in progress (obj: the
\* argument, todo: the values the call still hands to inner), then "to_done",
\* "from_done", "from_raised" (an exception left from_primitive) or
\* "to_overflow" / "from_overflow" (RecursionError).
NoWalk == stack = <<>> /\ maxDepth = 0

Init ==
    /\ reg \in Registries
    /\ x \in Values
    /\ prim = Unset
    /\ out = Unset
    /\ pc = "start"
    /\ NoWalk

\* Serializer.to_primitive(x)
Call_to_primitive ==
    /\ pc = "start"
    /\ prim' = to_primitive(reg, x)
    /\ pc' = "encoded"
    /\ UNCHANGED <<reg, x, out, stack, maxDepth>>

\* Serializer.from_primitive(prim)
Call_from_primitive ==
    /\ pc = "encoded"
    /\ out' = from_primitive(reg, prim)
    /\ pc' = "decoded"
    /\ UNCHANGED <<reg, x, prim, stack, maxDepth>>

Next == Call_to_primitive \/ Call_from_primitive

Spec == Init /\ [][Next]_vars

\* from_primitive on a raw primitive tree.
InitLoads ==
    /\ reg \in Registries
    /\ x = Unset
    /\ prim \in RawTrees
    /\ out = Unset
    /\ pc = "encoded"
    /\ NoWalk

NextLoads == Call_from_primitive

SpecLoads == InitLoads /\ [][NextLoads]_vars

\* ------------------------------------------------------------ the walk, step by step
\* Mutant of to_children: what a writer returns is not handed to inner.
to_children_flat(r, obj) ==
    LET b == to_branch(r, obj)
    IN  CASE b = "dict" -> [i \in 1..Len(obj.pairs) |-> obj.pairs[i].v]
          [] b = "list" -> obj.elems
          [] OTHER -> <<>>

\* The values to_primitive's inner(obj) calls inner on, in order.
to_children(r, obj) ==
    LET b == to_branch(r, obj)
    IN  CASE b = "dict" -> [i \in 1..Len(obj.pairs) |-> obj.pairs[i].v]
          [] b = "list" -> obj.elems
          [] b = "by_kind" ->
               LET w == Writer(ByKind(r, TypeOf(obj)), obj)
               IN  IF w.t # "none" THEN <<w>> ELSE <<>>
          [] OTHER -> <<>>

\* The values of the pairs that come before the first key filter_dict_keys
\* raises on: the comprehension evaluates key i, then inner(value i).
RECURSIVE from_values(_, _, _)
from_values(r, ps, i) ==
    IF i > Len(ps) \/ IsErr(from_filter_dict_keys(r, ps[i].k)) THEN <<>>
    ELSE <<ps[i].v>> \o from_values(r, ps, i + 1)

\* The values from_primitive's inner(obj) calls inner on, in order.
from_children(r, obj) ==
    IF obj.t = "dict"
    THEN IF HasKey(obj.pairs, StrV(type_key))
         THEN LET tpe == DictGet(obj.pairs, StrV(type_key))
              IN  IF tpe.t = "str" /\ HasName(r, tpe.s) /\ HasKey(obj.pairs, StrV(value_key))
                  THEN <<DictGet(obj.pairs, StrV(value_key))>>
                  ELSE <<>>
         ELSE from_values(r, obj.pairs, 1)
    ELSE IF obj.t = "list" THEN obj.elems
    ELSE <<>>

Children(mode, r, obj) ==
    IF mode = "to_walk" THEN to_children(r, obj) ELSE from_children(r, obj)

Frame(mode, r, obj) == [obj |-> obj, todo |-> Children(mode, r, obj)]

Top == stack[Len(stack)]

Walking == pc \in {"to_walk", "from_walk"} /\ stack # <<>>

\* Serializers for the walk: the one of the tests, and ones whose writers
\* return values of registered kinds. A codec for str whose writer returns the string it is
\* given, or a list that holds it; two codecs whose writers return an instance
\* of each other's kind; and a codec whose writer returns an instance of
\* another kind whose writer returns the payload.
WalkRegistries ==
    {<<CodecA, CodecB, CodecI>>, <<CodecS>>, <<CodecW>>, <<CodecP, CodecQ>>, <<CodecP, CodecB>>}

WalkValues == Scalars \cup Nested(MaxNest)

WalkTrees == RawFlat \cup {ListV(<<e>>) : e \in RawFlat}

InitWalk ==
    /\ reg \in WalkRegistries
    /\ \/ pc = "to_walk" /\ x \in WalkValues
       \/ pc = "from_walk" /\ x \in WalkTrees
    /\ prim = Unset
    /\ out = Unset
    /\ stack = <<Frame(pc, reg, x)>>
    /\ maxDepth = 1

\* inner calls inner on the next value.
Walk_call ==
    /\ Walking
    /\ Top.todo # <<>>
    /\ Len(stack) < MaxStack
    /\ stack' = Append([stack EXCEPT ![Len(stack)].todo = Tail(@)],
                       Frame(pc, reg, Head(Top.todo)))
    /\ maxDepth' = IF Len(stack') > maxDepth THEN Len(stack') ELSE maxDepth
    /\ UNCHANGED <<reg, x, prim, out, pc>>

\* The call would exceed the recursion limit: RecursionError, which no call
\* of inner catches, so it leaves every call in progress.
Walk_overflow ==
    /\ Walking
    /\ Top.todo # <<>>
    /\ Len(stack) >= MaxStack
    /\ pc' = IF pc = "to_walk" THEN "to_overflow" ELSE "from_overflow"
    /\ stack' = <<>>
    /\ UNCHANGED <<reg, x, prim, out, maxDepth>>

\* from_primitive's inner raises: the exception leaves every call in progress.
Walk_raise ==
    /\ Walking
    /\ Top.todo = <<>>
    /\ pc = "from_walk"
    /\ IsErr(from_inner(reg, Top.obj))
    /\ pc' = "from_raised"
    /\ stack' = <<>>
    /\ UNCHANGED <<reg, x, prim, out, maxDepth>>

\* inner returns to its caller; the outermost call returns the result.
Walk_return ==
    /\ Walking
    /\ Top.todo = <<>>
    /\ pc = "from_walk" => ~IsErr(from_inner(reg, Top.obj))
    /\ stack' = SubSeq(stack, 1, Len(stack) - 1)
    /\ pc' = IF Len(stack) > 1 THEN pc
             ELSE IF pc = "to_walk" THEN "to_done" ELSE "from_done"
    /\ UNCHANGED <<reg, x, prim, out, maxDepth>>

NextWalk == Walk_call \/ Walk_overflow \/ Walk_raise \/ Walk_return

\* A call in progress always takes its next step: the interpreter runs on.
FairSpecWalk == InitWalk /\ [][NextWalk]_vars /\ WF_vars(NextWalk)

\* ------------------------------------------------------------ claims
Max(S) == CHOOSE m \in S : \A n \in S : n <= m

\* v is built from instances of registered kinds, scalars, sequences and
\* mappings whose keys are strings or of a registered kind.
RECURSIVE BuiltFromRegistered(_, _)
BuiltFromRegistered(r, v) ==
    CASE v.t = "obj" -> HasKind(r, v.kind) /\ BuiltFromRegistered(r, v.payload)
      [] v.t = "list" -> \A i \in 1..Len(v.elems) : BuiltFromRegistered(r, v.elems[i])
      [] v.t = "dict" ->
           \A i \in 1..Len(v.pairs) :
               /\ v.pairs[i].k.t = "str" \/ HasKind(r, TypeOf(v.pairs[i].k))
               /\ BuiltFromRegistered(r, v.pairs[i].k)
               /\ BuiltFromRegistered(r, v.pairs[i].v)
      [] OTHER -> TRUE

\* v is a primitive tree: no instances, string keys only.
RECURSIVE IsPrimitiveTree(_)
IsPrimitiveTree(v) ==
    CASE v.t = "obj" -> FALSE
      [] v.t = "list" -> \A i \in 1..Len(v.elems) : IsPrimitiveTree(v.elems[i])
      [] v.t = "dict" ->
           \A i \in 1..Len(v.pairs) : v.pairs[i].k.t = "str" /\ IsPrimitiveTree(v.pairs[i].v)
      [] OTHER -> TRUE

\* No two codecs of the registry share a name or a kind.
UniqueCodecs(r) ==
    \A i, j \in 1..Len(r) : i # j => (r[i].name # r[j].name /\ r[i].kind # r[j].kind)

\* C1: round trip. For a Serializer whose codecs have unique names and kinds
\* and whose readers invert their writers, and a value x built from instances
\* of registered kinds, scalars, mappings and sequences,
\* from_primitive(to_primitive(x)) equals x.
C1_RoundTrip ==
    (pc = "decoded" /\ UniqueCodecs(reg) /\ BuiltFromRegistered(reg, x)) => out = x

\* C10: codec transparency. For an instance of a registered kind whose writer
\* returns a primitive p (a string, a mapping or a sequence), the reader is
\* called with p during from_primitive(to_primitive(x)): the reader here is
\* the class itself, so the instance it builds holds what it was called with.
C10_Transparency ==
    (/\ pc = "decoded"
     /\ x.t = "obj"
     /\ HasKind(reg, x.kind)
     /\ x.payload.t \in {"str", "list", "dict"}
     /\ IsPrimitiveTree(x.payload))
        => out = ObjV(x.kind, x.payload)

\* The key of a one-entry mapping is an instance of a registered kind whose
\* writer returns None or a string.
RegisteredKeyCase ==
    /\ x.t = "dict"
    /\ Len(x.pairs) = 1
    /\ x.pairs[1].k.t = "obj"
    /\ HasKind(reg, x.pairs[1].k.kind)
    /\ x.pairs[1].k.payload.t \in {"none", "str"}

\* C7: a mapping key of a registered kind named n becomes the string '$n'
\* when the writer returns None and '$n:' followed by the string the writer
\* returns otherwise, and from_primitive restores the key.
C7_KeyForm ==
    (pc # "start" /\ RegisteredKeyCase) =>
        LET key == x.pairs[1].k
            n == ByKind(reg, key.kind).name
        IN  /\ prim.pairs[1].k =
                   IF key.payload.t = "none" THEN StrV(<<"$">> \o n)
                   ELSE StrV(<<"$">> \o n \o <<":">> \o key.payload.s)
            /\ pc = "decoded" => (out.t = "dict" /\ out.pairs[1].k = key)

\* The position of the first colon of s (0 when it has none).
FirstColon(s) ==
    IF \E i \in 1..Len(s) : s[i] = ":"
    THEN CHOOSE i \in 1..Len(s) : s[i] = ":" /\ \A j \in 1..(i - 1) : s[j] # ":"
    ELSE 0

AllWord(s) == Len(s) > 0 /\ \A i \in 1..Len(s) : s[i] \in WordChars

\* C8: from_primitive of '$' + name + ':' + body (name one or more word
\* characters, body any string) calls the reader of the codec called name
\* with body, everything after the first colon; of '$' + name, with None.
C8_TagParsing ==
    (pc = "decoded" /\ prim.t = "str" /\ Len(prim.s) > 0 /\ prim.s[1] = "$") =>
        LET s == prim.s
            c == FirstColon(s)
            name == IF c = 0 THEN Tail1(s) ELSE SubSeq(s, 2, c - 1)
            body == IF c = 0 THEN NoneV ELSE StrV(SubSeq(s, c + 1, Len(s)))
        IN  (AllWord(name) /\ HasName(reg, name)) => out = Reader(ByName(reg, name), body)

RECURSIVE SumSeq(_)
SumSeq(q) == IF Len(q) = 0 THEN 0 ELSE q[1] + SumSeq(Tail(q))

\* How many tags a primitive tree holds: strings (values or keys) that begin
\* with '$', the reserved key apart, and mappings that hold the reserved key.
RECURSIVE TagCount(_)
TagCount(v) ==
    CASE v.t = "str" -> IF Len(v.s) > 0 /\ v.s[1] = "$" THEN 1 ELSE 0
      [] v.t = "list" -> SumSeq([i \in 1..Len(v.elems) |-> TagCount(v.elems[i])])
      [] v.t = "dict" ->
           (IF \E i \in 1..Len(v.pairs) : v.pairs[i].k = StrV(<<"$", "t">>) THEN 1 ELSE 0)
             + SumSeq([i \in 1..Len(v.pairs) |->
                        (IF v.pairs[i].k = StrV(<<"$", "t">>) THEN 0 ELSE TagCount(v.pairs[i].k))
                          + TagCount(v.pairs[i].v)])
      [] OTHER -> 0

IsUserMarked(v) == v.t = "str" /\ Len(v.s) > 0 /\ v.s[1] \in {"$", "/"}

\* How many values of a registered kind the transformer meets in a value:
\* instances at value positions (and in what their writers return), and keys.
RECURSIVE RegCount(_, _)
RegCount(r, v) ==
    CASE v.t = "list" -> SumSeq([i \in 1..Len(v.elems) |-> RegCount(r, v.elems[i])])
      [] v.t = "dict" ->
           SumSeq([i \in 1..Len(v.pairs) |->
                    (IF ~IsUserMarked(v.pairs[i].k) /\ HasKind(r, TypeOf(v.pairs[i].k))
                     THEN 1 ELSE 0) + RegCount(r, v.pairs[i].v)])
      [] v.t = "obj" -> IF HasKind(r, v.kind) THEN 1 + RegCount(r, v.payload) ELSE 0
      [] OTHER -> 0

\* s is '$' + a registered name, alone or followed by ':' and anything.
NamesCodec(r, s) ==
    \E i \in 1..Len(r) :
        LET n == r[i].name
        IN  /\ Len(s) >= 1 + Len(n)
            /\ SubSeq(s, 1, 1 + Len(n)) = <<"$">> \o n
            /\ Len(s) > 1 + Len(n) => s[2 + Len(n)] = ":"

\* Every '$' string of a primitive tree names a registered codec, and every
\* mapping with the reserved key is {'$t': a registered name, 'v': payload}.
RECURSIVE TagsWellFormed(_, _)
TagsWellFormed(r, v) ==
    CASE v.t = "str" -> (Len(v.s) > 0 /\ v.s[1] = "$") => NamesCodec(r, v.s)
      [] v.t = "list" -> \A i \in 1..Len(v.elems) : TagsWellFormed(r, v.elems[i])
      [] v.t = "dict" ->
           IF \E i \in 1..Len(v.pairs) : v.pairs[i].k = StrV(<<"$", "t">>)
           THEN /\ Len(v.pairs) = 2
                /\ v.pairs[1].k = StrV(<<"$", "t">>)
                /\ v.pairs[1].v.t = "str" /\ HasName(r, v.pairs[1].v.s)
                /\ v.pairs[2].k = StrV(<<"v">>)
                /\ TagsWellFormed(r, v.pairs[2].v)
           ELSE \A i \in 1..Len(v.pairs) :
                    TagsWellFormed(r, v.pairs[i].k) /\ TagsWellFormed(r, v.pairs[i].v)
      [] OTHER -> TRUE

\* C2: unambiguity of to_primitive's output. Every string of the output
\* (value or key) that begins with '$' is a tag naming a registered codec,
\* every mapping holding '$t' is a tagged compound, and there are no more
\* tags than values of registered kinds in the input: none comes from a
\* string or key of the user's.
C2_Unambiguous ==
    pc # "start" => (TagsWellFormed(reg, prim) /\ TagCount(prim) <= RegCount(reg, x))

\* to_primitive met user strings beginning with '$' (a value and the reserved
\* key) next to an instance of a registered kind.
C2_Witness ==
    /\ pc = "encoded"
    /\ x.t = "dict" /\ Len(x.pairs) = 2
    /\ x.pairs[1].k = StrV(<<"$", "t">>)
    /\ x.pairs[2].k.t = "obj"
    /\ x.pairs[2].v = StrV(<<"$">>)
    /\ TagCount(prim) = 1

\* C3: an unregistered string s that begins with '$' or '/' is emitted as
\* '/' + s, as a value and as a mapping key, and from_primitive gives back
\* exactly s: the first character removed, the rest not parsed.
C3_EscapeOneLayer ==
    /\ (pc # "start" /\ IsUserMarked(x) /\ ~HasKind(reg, "str")) =>
          /\ prim = StrV(<<"/">> \o x.s)
          /\ pc = "decoded" => out = x
    /\ (pc # "start" /\ x.t = "dict" /\ Len(x.pairs) = 1 /\ IsUserMarked(x.pairs[1].k)) =>
          /\ prim.t = "dict" /\ Len(prim.pairs) = 1
          /\ prim.pairs[1].k = StrV(<<"/">> \o x.pairs[1].k.s)
          /\ (pc = "decoded" /\ ~IsErr(out)) =>
                (out.t = "dict" /\ Len(out.pairs) = 1 /\ out.pairs[1].k = x.pairs[1].k)

\* A string that after its escape would parse as a tag ('$a:a') went through
\* both functions, as a value or as a key.
C3_Witness ==
    /\ pc = "decoded"
    /\ \/ x = StrV(<<"$", "a">>)
       \/ (x.t = "dict" /\ Len(x.pairs) = 1 /\ x.pairs[1].k = StrV(<<"/", "$">>) /\ ~IsErr(out))
    /\ out = x

\* The wire form of the instance x of a registered kind.
WireForm ==
    LET n == ByKind(reg, TypeOf(x)).name
        w == Writer(ByKind(reg, TypeOf(x)), x)
        r == to_primitive(reg, w)
    IN  IF w.t = "none" THEN StrV(<<"$">> \o n)
        ELSE IF r.t = "str" THEN StrV(<<"$">> \o n \o <<":">> \o r.s)
        ELSE DictV(<<[k |-> StrV(<<"$", "t">>), v |-> StrV(n)], [k |-> StrV(<<"v">>), v |-> r]>>)

\* C4 as stated: every value of a registered kind is emitted as '$n', as
\* '$n:' + r or as {'$t': n, 'v': r}.
C4_Original ==
    (pc # "start" /\ HasKind(reg, TypeOf(x))) => prim = WireForm

\* C4 amended: every value of a registered kind that is not an int (nor a
\* mapping or a sequence) is emitted as '$n' when the writer returns None, as
\* '$n:' + r when the transformed result r is a string, and as the two-key
\* mapping {'$t': n, 'v': r} otherwise.
C4_WireForm ==
    (pc # "start" /\ HasKind(reg, TypeOf(x)) /\ x.t \notin {"int", "list", "dict"})
        => prim = WireForm

\* All three forms arise: no body, a string body, a compound.
C4_Witness ==
    /\ pc = "encoded"
    /\ x = ObjV("A", ListV(<<StrV(<<"$">>)>>))
    /\ prim = DictV(<<[k |-> StrV(<<"$", "t">>), v |-> StrV(<<"a">>)],
                      [k |-> StrV(<<"v">>), v |-> ListV(<<StrV(<<"/", "$">>)>>)]>>)

\* C5: with a codec registered for int, to_primitive returns an int
\* unchanged at top level, as a mapping value and as a sequence element.
C5_IntBypass ==
    (pc # "start" /\ HasKind(reg, "int")) =>
        /\ x.t = "int" => prim = x
        /\ x.t = "list" =>
              /\ Len(prim.elems) = Len(x.elems)
              /\ \A i \in 1..Len(x.elems) : x.elems[i].t = "int" => prim.elems[i] = x.elems[i]
        /\ (x.t = "dict" /\ Len(prim.pairs) = Len(x.pairs)) =>
              \A i \in 1..Len(x.pairs) : x.pairs[i].v.t = "int" => prim.pairs[i].v = x.pairs[i].v

\* An int was transformed inside a mapping by a Serializer with an int codec.
C5_Witness ==
    /\ pc = "encoded"
    /\ HasKind(reg, "int")
    /\ x.t = "dict" /\ Len(x.pairs) = 1 /\ x.pairs[1].v = IntV(7)
    /\ prim.pairs[1].v = IntV(7)

MatchesTag(s) == Len(s) >= 2 /\ s[1] = "$" /\ s[2] \in WordChars

\* The name of a string that matches the tag pattern: the word characters
\* that follow the '$', as many as there are.
TagName(s) ==
    LET j == CHOOSE i \in 2..Len(s) :
                 /\ \A n \in 2..i : s[n] \in WordChars
                 /\ i = Len(s) \/ s[i + 1] \notin WordChars
    IN  SubSeq(s, 2, j)

\* What is wrong with a string or key as a tag: nothing ({}) when it does
\* not begin with '$'.
StrFault(r, v) ==
    IF v.t = "str" /\ Len(v.s) > 0 /\ v.s[1] = "$"
    THEN IF ~MatchesTag(v.s) THEN {"ValueError"}
         ELSE IF ~HasName(r, TagName(v.s)) THEN {"KeyError"} ELSE {}
    ELSE {}

HasTypeKey(v) == \E i \in 1..Len(v.pairs) : v.pairs[i].k = StrV(<<"$", "t">>)

EntryOf(v, key) == v.pairs[CHOOSE i \in 1..Len(v.pairs) : v.pairs[i].k = key].v

\* The name a tagged compound gives is that of no codec.
NameFault(r, v) ==
    LET tpe == EntryOf(v, StrV(<<"$", "t">>))
    IN  IF tpe.t = "str" /\ ~HasName(r, tpe.s) THEN {"KeyError"} ELSE {}

\* The malformed and unknown tags anywhere in a tree, the reserved key apart.
RECURSIVE AllFaults(_, _)
AllFaults(r, v) ==
    CASE v.t = "str" -> StrFault(r, v)
      [] v.t = "list" -> UNION {AllFaults(r, v.elems[i]) : i \in 1..Len(v.elems)}
      [] v.t = "dict" ->
           (IF HasTypeKey(v) THEN NameFault(r, v) ELSE {})
             \cup UNION {(IF v.pairs[i].k = StrV(<<"$", "t">>) THEN {}
                          ELSE StrFault(r, v.pairs[i].k) \cup AllFaults(r, v.pairs[i].v)) :
                         i \in 1..Len(v.pairs)}
      [] OTHER -> {}

\* The malformed and unknown tags the walk looks at: of a mapping that holds
\* '$t', the name and what is under 'v' only.
RECURSIVE ReachedFaults(_, _)
ReachedFaults(r, v) ==
    CASE v.t = "str" -> StrFault(r, v)
      [] v.t = "list" -> UNION {ReachedFaults(r, v.elems[i]) : i \in 1..Len(v.elems)}
      [] v.t = "dict" ->
           IF HasTypeKey(v)
           THEN NameFault(r, v)
                  \cup (IF \E i \in 1..Len(v.pairs) : v.pairs[i].k = StrV(<<"v">>)
                        THEN ReachedFaults(r, EntryOf(v, StrV(<<"v">>))) ELSE {})
           ELSE UNION {StrFault(r, v.pairs[i].k) \cup ReachedFaults(r, v.pairs[i].v) :
                       i \in 1..Len(v.pairs)}
      [] OTHER -> {}

\* Nothing but a tag can fail in the tree: keys are strings, a tagged
\* compound has a string under '$t' and an entry 'v', and no tag names a
\* codec whose reader may raise.
RECURSIVE OnlyTagsFail(_, _)
OnlyTagsFail(r, v) ==
    CASE v.t = "str" ->
           (MatchesTag(v.s) /\ HasName(r, TagName(v.s)))
              => ByName(r, TagName(v.s)).from_primitive = "box"
      [] v.t = "list" -> \A i \in 1..Len(v.elems) : OnlyTagsFail(r, v.elems[i])
      [] v.t = "dict" ->
           IF HasTypeKey(v)
           THEN LET tpe == EntryOf(v, StrV(<<"$", "t">>))
                IN  /\ tpe.t = "str"
                    /\ HasName(r, tpe.s) => ByName(r, tpe.s).from_primitive = "box"
                    /\ \E i \in 1..Len(v.pairs) : v.pairs[i].k = StrV(<<"v">>)
                    /\ OnlyTagsFail(r, EntryOf(v, StrV(<<"v">>)))
           ELSE \A i \in 1..Len(v.pairs) :
                    /\ v.pairs[i].k.t = "str"
                    /\ OnlyTagsFail(r, v.pairs[i].k)
                    /\ OnlyTagsFail(r, v.pairs[i].v)
      [] OTHER -> TRUE

\* C6 as stated: a malformed tag or the name of an unknown codec anywhere in
\* the tree makes from_primitive fail.
C6_Original ==
    (pc = "decoded" /\ AllFaults(reg, prim) # {}) => IsErr(out)

\* C6 amended: a malformed tag the walk reaches raises ValueError, an unknown
\* codec name it reaches raises KeyError, and either ends the decode with no
\* result: from_primitive fails when the walk reaches any, and with the
\* error of one of them when nothing else in the tree can fail. The walk
\* reaches of a mapping that holds '$t' its name and its 'v' entry only.
C6_DecodeErrors ==
    pc = "decoded" =>
        LET F == ReachedFaults(reg, prim)
        IN  /\ F # {} => IsErr(out)
            /\ (F # {} /\ OnlyTagsFail(reg, prim)) => out.exc \in F
            /\ (F = {} /\ OnlyTagsFail(reg, prim)) => ~IsErr(out)

\* An unknown codec deep in the tree, under a tagged compound, failed the decode.
C6_Witness ==
    /\ pc = "decoded"
    /\ prim = DictV(<<[k |-> StrV(<<"$", "t">>), v |-> StrV(<<"a">>)],
                      [k |-> StrV(<<"v">>), v |-> ListV(<<StrV(<<"$", "a", "a">>)>>)]>>)
    /\ out = Err("KeyError")

\* The values to_primitive's walk goes on to from v: the values of a mapping,
\* the elements of a sequence, and for a value of a registered kind other
\* than int what its writer returns, unless that is None.
Below(r, v) ==
    CASE v.t = "dict" -> {v.pairs[i].v : i \in 1..Len(v.pairs)}
      [] v.t = "list" -> {v.elems[i] : i \in 1..Len(v.elems)}
      [] v.t = "int" -> {}
      [] OTHER ->
           IF HasKind(r, TypeOf(v)) /\ Writer(ByKind(r, TypeOf(v)), v).t # "none"
           THEN {Writer(ByKind(r, TypeOf(v)), v)}
           ELSE {}

\* The nesting depth of a value for to_primitive, counted no further than
\* cap: a scalar is 1, a mapping or a sequence one more than its deepest
\* value, and an instance of a registered kind one more than what its writer
\* returns.
RECURSIVE EncDepthUpTo(_, _, _)
EncDepthUpTo(r, v, cap) ==
    IF cap = 0 THEN 0
    ELSE 1 + Max({0} \cup {EncDepthUpTo(r, c, cap - 1) : c \in Below(r, v)})

\* Anything deeper than the recursion limit counts as one more than it.
EncDepth(r, v) == EncDepthUpTo(r, v, MaxStack + 1)

\* Going on from v comes back to a value it has passed through (one of
\* above, or v itself further down): the writers then never come to an end.
\* The values of the model are finitely many, so an endless chain of writers
\* is one that comes back to a value.
RECURSIVE ComesBack(_, _, _)
ComesBack(r, v, above) ==
    \/ v \in above
    \/ \E c \in Below(r, v) : ComesBack(r, c, above \cup {v})

\* The writers never come to an end on the value x.
Endless == ComesBack(reg, x, {})

\* The nesting depth of a primitive tree.
RECURSIVE TreeDepth(_)
TreeDepth(v) ==
    CASE v.t = "dict" -> 1 + Max({0} \cup {TreeDepth(v.pairs[i].v) : i \in 1..Len(v.pairs)})
      [] v.t = "list" -> 1 + Max({0} \cup {TreeDepth(v.elems[i]) : i \in 1..Len(v.elems)})
      [] OTHER -> 1

WalkDepths ==
    /\ pc = "to_done" => maxDepth = EncDepth(reg, x)
    /\ pc \in {"from_done", "from_raised"} => maxDepth <= TreeDepth(x)

=============================================================================
